---- MODULE Spec2Model ----
(***************************************************************************)
(* Model of pkg/apiserver/statement/queries.go (tidb-dashboard): the       *)
(* statement-summary configuration accessor (queryStmtConfig and           *)
(* updateStmtConfig over three global variables of the store) and the      *)
(* statement query builders (queryStatements, queryPlans,                  *)
(* queryPlanDetail).                                                       *)
(*                                                                         *)
(* Strings whose content matters (stored values, search text, patterns,    *)
(* column values) are sequences of one-character strings, so that parsing, *)
(* formatting, lower-casing, splitting and pattern matching are computed   *)
(* character by character as the code computes them.                       *)
(***************************************************************************)
EXTENDS Integers, Sequences, FiniteSets, TLC

VARIABLES
    store,       \* the global variables of the store: setting name -> stored string
    pc,          \* position of each caller inside its current call
    cfg,         \* the *Config argument of each updateStmtConfig caller
    config,      \* the Config under construction / returned by each queryStmtConfig caller
    log,         \* the database statements the caller's current call has issued, in order
    ret,         \* what the caller's last call returned: "none" (no call returned yet), "nil", "err"
    pre,         \* the store as it was when the last updateStmtConfig call began (SpecSeq)
    table,       \* the rows of the statements table
    q            \* the last statement-query call: its inputs, what it issued, its result

vars == <<store, pc, cfg, config, log, ret, pre, table, q>>

(***************************************************************************)
(* Constants of the source.                                                *)
(***************************************************************************)
stmtEnableVar == "tidb_enable_stmt_summary"
stmtRefreshIntervalVar == "tidb_stmt_summary_refresh_interval"
stmtHistorySizeVar == "tidb_stmt_summary_history_size"
statementsTable == "INFORMATION_SCHEMA.CLUSTER_STATEMENTS_SUMMARY_HISTORY"

Settings == {stmtEnableVar, stmtRefreshIntervalVar, stmtHistorySizeVar}

DefaultRefreshInterval == 1800
DefaultHistorySize == 24
UnsetSentinel == -1

(***************************************************************************)
(* Decimal rendering and parsing.                                          *)
(***************************************************************************)
Digits == <<"0", "1", "2", "3", "4", "5", "6", "7", "8", "9">>
DigitSet == {Digits[i] : i \in 1..10}
DigitVal(c) == (CHOOSE i \in 1..10 : Digits[i] = c) - 1

RECURSIVE FormatNat(_)
FormatNat(n) ==
    IF n < 10 THEN <<Digits[n + 1]>>
    ELSE FormatNat(n \div 10) \o <<Digits[(n % 10) + 1]>>

\* The string the store holds, and SELECT @@GLOBAL.x returns, for an integer
\* bound to SET GLOBAL x = ?
FormatInt(n) == IF n < 0 THEN <<"-">> \o FormatNat(-n) ELSE FormatNat(n)

\* A bool bound to SET GLOBAL x = ? is sent as 1 or 0.
FormatBool(b) == IF b THEN <<"1">> ELSE <<"0">>

RECURSIVE ParseNat(_, _)
ParseNat(s, acc) ==
    IF s = <<>> THEN acc ELSE ParseNat(Tail(s), acc * 10 + DigitVal(Head(s)))

\* strconv.Atoi: an optional sign, then one or more decimal digits; anything
\* else is an error.  (Values stay far below the int range.)
Atoi(s) ==
    LET signed == s # <<>> /\ Head(s) \in {"+", "-"}
        body == IF signed THEN Tail(s) ELSE s
    IN  IF body = <<>> \/ \E i \in 1..Len(body) : body[i] \notin DigitSet
        THEN [err |-> TRUE, val |-> 0]
        ELSE [err |-> FALSE,
              val |-> IF signed /\ Head(s) = "-" THEN 0 - ParseNat(body, 0)
                      ELSE ParseNat(body, 0)]

\* querySQLIntVariable with an unset value read as 0 instead of the sentinel.
querySQLIntVariable_UnsetZero(readOk, strVal) ==
    IF ~readOk THEN [err |-> TRUE, val |-> 0]
    ELSE IF strVal = <<>> THEN [err |-> FALSE, val |-> 0]
    ELSE Atoi(strVal)

(***************************************************************************)
(* querySQLIntVariable: readOk is whether db.Raw(...).Pluck succeeded,     *)
(* strVal the value it plucked.                                            *)
(***************************************************************************)
querySQLIntVariable(readOk, strVal) ==
    IF ~readOk THEN [err |-> TRUE, val |-> 0]
    ELSE IF strVal = <<>> THEN [err |-> FALSE, val |-> UnsetSentinel]
    ELSE Atoi(strVal)

(***************************************************************************)
(* Callers and inputs of the configuration accessor.                       *)
(***************************************************************************)
Writers == {"w1", "w2"}
Readers == {"r1"}
Procs == Writers \cup Readers

RefreshIntervalValues == {60, 1800}
HistorySizeValues == {0, 24}
Configs ==
    [Enable : BOOLEAN, RefreshInterval : RefreshIntervalValues,
     HistorySize : HistorySizeValues]

\* Config{}: the zero value queryStmtConfig starts from.
ZeroConfig == [Enable |-> FALSE, RefreshInterval |-> 0, HistorySize |-> 0]

\* db.Exec("SET GLOBAL name = ?", value): a failed statement changes nothing.
StoreWrite(name, value, ok) ==
    IF ok THEN [store EXCEPT ![name] = value] ELSE store

WriteEntry(name, ok) == [op |-> "write", name |-> name, ok |-> ok]
ReadEntry(name, ok, strVal) ==
    [op |-> "read", name |-> name, ok |-> ok, str |-> strVal]
ErrOf(ok) == IF ok THEN "nil" ELSE "err"

(***************************************************************************)
(* updateStmtConfig, one action per db.Exec.  ret[p] is the named result   *)
(* err, which is what the call returns once pc[p] is "done".               *)
(***************************************************************************)
\* updateStmtConfig returning as soon as the write of the enabled flag fails.
WriteEnable_ReturnsOnError(p) ==
    /\ p \in Writers
    /\ pc[p] \in {"idle", "done"}
    /\ \E c \in Configs, ok \in BOOLEAN :
        /\ cfg' = [cfg EXCEPT ![p] = c]
        /\ store' = StoreWrite(stmtEnableVar, FormatBool(c.Enable), ok)
        /\ log' = [log EXCEPT ![p] = <<WriteEntry(stmtEnableVar, ok)>>]
        /\ ret' = [ret EXCEPT ![p] = ErrOf(ok)]
        /\ pc' = [pc EXCEPT ![p] = IF c.Enable /\ ok THEN "refresh" ELSE "done"]
    /\ UNCHANGED <<config, table, q>>

\* updateStmtConfig holding a lock from its first write to its return.
WriteEnable_Locked(p) ==
    /\ p \in Writers
    /\ pc[p] \in {"idle", "done"}
    /\ \A w \in Writers \ {p} : pc[w] \in {"idle", "done"}
    /\ \E c \in Configs, ok \in BOOLEAN :
        /\ cfg' = [cfg EXCEPT ![p] = c]
        /\ store' = StoreWrite(stmtEnableVar, FormatBool(c.Enable), ok)
        /\ log' = [log EXCEPT ![p] = <<WriteEntry(stmtEnableVar, ok)>>]
        /\ ret' = [ret EXCEPT ![p] = ErrOf(ok)]
        /\ pc' = [pc EXCEPT ![p] = IF c.Enable THEN "refresh" ELSE "done"]
    /\ UNCHANGED <<config, table, q>>

\* Lines 84-89: entry, SET GLOBAL tidb_enable_stmt_summary, and the branch on
\* config.Enable (the error of this write is not examined).
WriteEnable(p) ==
    /\ p \in Writers
    /\ pc[p] \in {"idle", "done"}
    /\ \E c \in Configs, ok \in BOOLEAN :
        /\ cfg' = [cfg EXCEPT ![p] = c]
        /\ store' = StoreWrite(stmtEnableVar, FormatBool(c.Enable), ok)
        /\ log' = [log EXCEPT ![p] = <<WriteEntry(stmtEnableVar, ok)>>]
        /\ ret' = [ret EXCEPT ![p] = ErrOf(ok)]
        /\ pc' = [pc EXCEPT ![p] = IF c.Enable THEN "refresh" ELSE "done"]
    /\ UNCHANGED <<config, table, q>>

\* updateStmtConfig without the return after a failed refresh-interval write.
WriteRefresh_NoReturn(p) ==
    /\ p \in Writers
    /\ pc[p] = "refresh"
    /\ \E ok \in BOOLEAN :
        /\ store' = StoreWrite(stmtRefreshIntervalVar,
                               FormatInt(cfg[p].RefreshInterval), ok)
        /\ log' = [log EXCEPT ![p] = Append(@, WriteEntry(stmtRefreshIntervalVar, ok))]
        /\ ret' = [ret EXCEPT ![p] = ErrOf(ok)]
        /\ pc' = [pc EXCEPT ![p] = "history"]
    /\ UNCHANGED <<cfg, config, table, q>>

\* Lines 91-95: SET GLOBAL tidb_stmt_summary_refresh_interval; return on error.
WriteRefresh(p) ==
    /\ p \in Writers
    /\ pc[p] = "refresh"
    /\ \E ok \in BOOLEAN :
        /\ store' = StoreWrite(stmtRefreshIntervalVar,
                               FormatInt(cfg[p].RefreshInterval), ok)
        /\ log' = [log EXCEPT ![p] = Append(@, WriteEntry(stmtRefreshIntervalVar, ok))]
        /\ ret' = [ret EXCEPT ![p] = ErrOf(ok)]
        /\ pc' = [pc EXCEPT ![p] = IF ok THEN "history" ELSE "done"]
    /\ UNCHANGED <<cfg, config, table, q>>

\* Lines 96-99: SET GLOBAL tidb_stmt_summary_history_size; return.
WriteHistory(p) ==
    /\ p \in Writers
    /\ pc[p] = "history"
    /\ \E ok \in BOOLEAN :
        /\ store' = StoreWrite(stmtHistorySizeVar,
                               FormatInt(cfg[p].HistorySize), ok)
        /\ log' = [log EXCEPT ![p] = Append(@, WriteEntry(stmtHistorySizeVar, ok))]
        /\ ret' = [ret EXCEPT ![p] = ErrOf(ok)]
        /\ pc' = [pc EXCEPT ![p] = "done"]
    /\ UNCHANGED <<cfg, config, table, q>>

(***************************************************************************)
(* queryStmtConfig, one action per querySQLIntVariable.  A call that       *)
(* returns an error returns no Config (nil): config[r] is then NoConfig.   *)
(***************************************************************************)
NoConfig == [nil |-> TRUE]

\* Lines 52-59.
ReadEnable(r) ==
    /\ r \in Readers
    /\ pc[r] \in {"idle", "done"}
    /\ \E ok \in BOOLEAN :
        LET res == querySQLIntVariable(ok, store[stmtEnableVar]) IN
        /\ log' = [log EXCEPT ![r] = <<ReadEntry(stmtEnableVar, ok, store[stmtEnableVar])>>]
        /\ IF res.err
           THEN /\ ret' = [ret EXCEPT ![r] = "err"]
                /\ config' = [config EXCEPT ![r] = NoConfig]
                /\ pc' = [pc EXCEPT ![r] = "done"]
           ELSE /\ ret' = [ret EXCEPT ![r] = "nil"]
                /\ config' = [config EXCEPT ![r] =
                                [ZeroConfig EXCEPT !.Enable = (res.val # 0)]]
                /\ pc' = [pc EXCEPT ![r] = "refresh"]
    /\ UNCHANGED <<store, cfg, table, q>>

\* queryStmtConfig without the return after a failed refresh-interval read.
ReadRefresh_NoReturn(r) ==
    /\ r \in Readers
    /\ pc[r] = "refresh"
    /\ \E ok \in BOOLEAN :
        LET res == querySQLIntVariable(ok, store[stmtRefreshIntervalVar]) IN
        /\ log' = [log EXCEPT ![r] =
                     Append(@, ReadEntry(stmtRefreshIntervalVar, ok,
                                         store[stmtRefreshIntervalVar]))]
        /\ ret' = [ret EXCEPT ![r] = IF res.err THEN "err" ELSE "nil"]
        /\ config' = [config EXCEPT ![r].RefreshInterval =
                        IF res.val = UnsetSentinel
                        THEN DefaultRefreshInterval ELSE res.val]
        /\ pc' = [pc EXCEPT ![r] = "history"]
    /\ UNCHANGED <<store, cfg, table, q>>

\* Lines 61-69.
ReadRefresh(r) ==
    /\ r \in Readers
    /\ pc[r] = "refresh"
    /\ \E ok \in BOOLEAN :
        LET res == querySQLIntVariable(ok, store[stmtRefreshIntervalVar]) IN
        /\ log' = [log EXCEPT ![r] =
                     Append(@, ReadEntry(stmtRefreshIntervalVar, ok,
                                         store[stmtRefreshIntervalVar]))]
        /\ IF res.err
           THEN /\ ret' = [ret EXCEPT ![r] = "err"]
                /\ config' = [config EXCEPT ![r] = NoConfig]
                /\ pc' = [pc EXCEPT ![r] = "done"]
           ELSE /\ ret' = [ret EXCEPT ![r] = "nil"]
                /\ config' = [config EXCEPT ![r].RefreshInterval =
                                IF res.val = UnsetSentinel
                                THEN DefaultRefreshInterval ELSE res.val]
                /\ pc' = [pc EXCEPT ![r] = "history"]
    /\ UNCHANGED <<store, cfg, table, q>>

\* queryStmtConfig with the refresh interval's default for the history size.
ReadHistory_WrongDefault(r) ==
    /\ r \in Readers
    /\ pc[r] = "history"
    /\ \E ok \in BOOLEAN :
        LET res == querySQLIntVariable(ok, store[stmtHistorySizeVar]) IN
        /\ log' = [log EXCEPT ![r] =
                     Append(@, ReadEntry(stmtHistorySizeVar, ok,
                                         store[stmtHistorySizeVar]))]
        /\ IF res.err
           THEN /\ ret' = [ret EXCEPT ![r] = "err"]
                /\ config' = [config EXCEPT ![r] = NoConfig]
           ELSE /\ ret' = [ret EXCEPT ![r] = "nil"]
                /\ config' = [config EXCEPT ![r].HistorySize =
                                IF res.val = UnsetSentinel
                                THEN DefaultRefreshInterval ELSE res.val]
        /\ pc' = [pc EXCEPT ![r] = "done"]
    /\ UNCHANGED <<store, cfg, table, q>>

\* Lines 71-81.
ReadHistory(r) ==
    /\ r \in Readers
    /\ pc[r] = "history"
    /\ \E ok \in BOOLEAN :
        LET res == querySQLIntVariable(ok, store[stmtHistorySizeVar]) IN
        /\ log' = [log EXCEPT ![r] =
                     Append(@, ReadEntry(stmtHistorySizeVar, ok,
                                         store[stmtHistorySizeVar]))]
        /\ IF res.err
           THEN /\ ret' = [ret EXCEPT ![r] = "err"]
                /\ config' = [config EXCEPT ![r] = NoConfig]
           ELSE /\ ret' = [ret EXCEPT ![r] = "nil"]
                /\ config' = [config EXCEPT ![r].HistorySize =
                                IF res.val = UnsetSentinel
                                THEN DefaultHistorySize ELSE res.val]
        /\ pc' = [pc EXCEPT ![r] = "done"]
    /\ UNCHANGED <<store, cfg, table, q>>

NoQuery == [op |-> "none"]

RECURSIVE Strs(_, _)
\* The strings over the characters cs of length at most n.
Strs(cs, n) ==
    IF n = 0 THEN {<<>>}
    ELSE LET shorter == Strs(cs, n - 1)
         IN  shorter \cup {Append(s, c) : s \in shorter, c \in cs}

MaxStoredLen == 2
StoredChars == {"-", "0", "1"}
\* What SELECT @@GLOBAL.x may return: the empty string of an unset variable,
\* decimal integers (signed or not) and text that is no integer.
StoredStrings == Strs(StoredChars, MaxStoredLen) \cup {<<"+", "1">>, <<"x">>}
\* The stored values the updateStmtConfig specifications start from.
InitStrings == {<<>>, <<"-", "1">>}
SeqStrings == {<<>>, <<"0">>, <<"1">>, <<"7">>, <<"x">>}

InitIdle ==
    /\ pc = [p \in Procs |-> "idle"]
    /\ cfg = [p \in Writers |-> ZeroConfig]
    /\ config = [r \in Readers |-> NoConfig]
    /\ log = [p \in Procs |-> <<>>]
    /\ ret = [p \in Procs |-> "none"]
    /\ pre = store
    /\ q = NoQuery

(***************************************************************************)
(* Spec: two callers of updateStmtConfig, their writes interleaved.        *)
(***************************************************************************)
Init ==
    /\ store \in [Settings -> InitStrings]
    /\ table = {}
    /\ InitIdle

Next ==
    \/ \E p \in Writers : WriteEnable(p) /\ UNCHANGED pre
    \/ \E p \in Writers : WriteRefresh(p) /\ UNCHANGED pre
    \/ \E p \in Writers : WriteHistory(p) /\ UNCHANGED pre

Spec == Init /\ [][Next]_vars

(***************************************************************************)
(* SpecSeq: one caller of updateStmtConfig, call after call; pre records   *)
(* the store each call found.                                              *)
(***************************************************************************)
SeqWriter == "w1"

InitSeq ==
    /\ store \in [Settings -> SeqStrings]
    /\ table = {}
    /\ InitIdle

NextSeq ==
    \/ WriteEnable(SeqWriter) /\ pre' = store
    \/ WriteRefresh(SeqWriter) /\ UNCHANGED pre
    \/ WriteHistory(SeqWriter) /\ UNCHANGED pre

SpecSeq == InitSeq /\ [][NextSeq]_vars

(***************************************************************************)
(* SpecRead: a caller of queryStmtConfig, call after call, over every      *)
(* stored content.                                                         *)
(***************************************************************************)
InitRead ==
    /\ store \in [Settings -> StoredStrings]
    /\ table = {}
    /\ InitIdle

NextRead ==
    \/ \E r \in Readers : ReadEnable(r) /\ UNCHANGED pre
    \/ \E r \in Readers : ReadRefresh(r) /\ UNCHANGED pre
    \/ \E r \in Readers : ReadHistory(r) /\ UNCHANGED pre

SpecRead == InitRead /\ [][NextRead]_vars

(***************************************************************************)
(* Text: lower-casing, splitting, quoting and pattern matching.            *)
(***************************************************************************)
UpperLetters == <<"A", "B", "C", "D", "E", "F", "G", "H", "I", "J", "K", "L", "M",
                  "N", "O", "P", "Q", "R", "S", "T", "U", "V", "W", "X", "Y", "Z">>
LowerLetters == <<"a", "b", "c", "d", "e", "f", "g", "h", "i", "j", "k", "l", "m",
                  "n", "o", "p", "q", "r", "s", "t", "u", "v", "w", "x", "y", "z">>
LetterCount == Len(UpperLetters)

LowerChar(c) ==
    IF \E i \in 1..LetterCount : UpperLetters[i] = c
    THEN LowerLetters[CHOOSE i \in 1..LetterCount : UpperLetters[i] = c]
    ELSE c

\* strings.ToLower, and LOWER() of the store.
ToLower(s) == [i \in 1..Len(s) |-> LowerChar(s[i])]

IsSpace(c) == c \in {" ", "\t", "\n", "\r"}

RECURSIVE FieldsFrom(_, _, _)
FieldsFrom(s, i, cur) ==
    LET flush == IF cur = <<>> THEN <<>> ELSE <<cur>>
    IN  IF i > Len(s) THEN flush
        ELSE IF IsSpace(s[i]) THEN flush \o FieldsFrom(s, i + 1, <<>>)
        ELSE FieldsFrom(s, i + 1, Append(cur, s[i]))

\* strings.Fields: the maximal runs of non-space characters, in order.
Fields(s) == FieldsFrom(s, 1, <<>>)

RegexpSpecial == {"\\", ".", "+", "*", "?", "(", ")", "|", "[", "]", "{", "}", "^", "$"}

RECURSIVE QuoteMeta(_)
\* regexp.QuoteMeta: a backslash before every regular-expression metacharacter.
QuoteMeta(s) ==
    IF s = <<>> THEN <<>>
    ELSE (IF Head(s) \in RegexpSpecial THEN <<"\\", Head(s)>> ELSE <<Head(s)>>)
         \o QuoteMeta(Tail(s))

RECURSIVE Join(_, _)
\* strings.Join
Join(parts, sep) ==
    IF parts = <<>> THEN <<>>
    ELSE IF Len(parts) = 1 THEN parts[1]
    ELSE parts[1] \o sep \o Join(Tail(parts), sep)

(***************************************************************************)
(* REGEXP of the store, for the patterns this program sends: literal       *)
(* characters, "." (any character), "\b" (word boundary), a backslash      *)
(* before a punctuation character (that character, literally) and "|"      *)
(* (alternation).  x REGEXP p holds when p matches somewhere in x.          *)
(***************************************************************************)
RECURSIVE Tokens(_)
Tokens(p) ==
    IF p = <<>> THEN <<>>
    ELSE IF Head(p) = "\\" /\ Len(p) >= 2
         THEN <<IF p[2] = "b" THEN [k |-> "wb", c |-> ""]
                ELSE [k |-> "lit", c |-> p[2]]>> \o Tokens(SubSeq(p, 3, Len(p)))
    ELSE IF Head(p) = "|" THEN <<[k |-> "alt", c |-> ""]>> \o Tokens(Tail(p))
    ELSE IF Head(p) = "." THEN <<[k |-> "any", c |-> ""]>> \o Tokens(Tail(p))
    ELSE <<[k |-> "lit", c |-> Head(p)]>> \o Tokens(Tail(p))

RECURSIVE SplitAlt(_, _)
\* The alternatives of a token sequence: its parts between "|" tokens.
SplitAlt(ts, cur) ==
    IF ts = <<>> THEN <<cur>>
    ELSE IF Head(ts).k = "alt" THEN <<cur>> \o SplitAlt(Tail(ts), <<>>)
    ELSE SplitAlt(Tail(ts), Append(cur, Head(ts)))

IsWordChar(c) ==
    \/ c \in DigitSet
    \/ c = "_"
    \/ \E i \in 1..LetterCount : c = UpperLetters[i] \/ c = LowerLetters[i]

\* Position i (before character i, 1..Len+1) is a word boundary of x.
WordBoundary(x, i) ==
    (i > 1 /\ IsWordChar(x[i - 1])) # (i <= Len(x) /\ IsWordChar(x[i]))

RECURSIVE MatchAt(_, _, _)
MatchAt(ts, x, i) ==
    IF ts = <<>> THEN TRUE
    ELSE LET h == Head(ts) IN
         IF h.k = "wb" THEN WordBoundary(x, i) /\ MatchAt(Tail(ts), x, i)
         ELSE IF h.k = "any"
              THEN i <= Len(x) /\ x[i] # "\n" /\ MatchAt(Tail(ts), x, i + 1)
         ELSE i <= Len(x) /\ x[i] = h.c /\ MatchAt(Tail(ts), x, i + 1)

RegexpLike(x, p) ==
    LET alts == SplitAlt(Tokens(p), <<>>)
    IN  \E a \in 1..Len(alts) : \E i \in 1..(Len(x) + 1) : MatchAt(alts[a], x, i)

(***************************************************************************)
(* The where clauses the query builders add, and what each selects.        *)
(***************************************************************************)
TimeWhere == "summary_begin_time >= FROM_UNIXTIME(?) AND summary_end_time <= FROM_UNIXTIME(?)"
SchemasWhere == "table_names REGEXP ?"
StmtTypesWhere == "stmt_type in (?)"
TextWhere == "LOWER(digest_text) REGEXP ? OR LOWER(digest) REGEXP ? OR LOWER(schema_name) REGEXP ? OR LOWER(table_names) REGEXP ? OR LOWER(plan) REGEXP ?"
SchemaNameWhere == "schema_name = ?"
DigestWhere == "digest = ?"
PlansWhere == "plan_digest in (?)"

Where(tmpl, args) == [tmpl |-> tmpl, args |-> args]
Elems(seq) == {seq[i] : i \in 1..Len(seq)}

\* Whether a row satisfies one where clause with its bound values.
EvalWhere(w, row) ==
    IF w.tmpl = TimeWhere
    THEN row.summary_begin_time >= w.args[1] /\ row.summary_end_time <= w.args[2]
    ELSE IF w.tmpl = SchemasWhere THEN RegexpLike(row.table_names, w.args[1])
    ELSE IF w.tmpl = StmtTypesWhere THEN row.stmt_type \in Elems(w.args[1])
    ELSE IF w.tmpl = TextWhere
    THEN \/ RegexpLike(ToLower(row.digest_text), w.args[1])
         \/ RegexpLike(ToLower(row.digest), w.args[2])
         \/ RegexpLike(ToLower(row.schema_name), w.args[3])
         \/ RegexpLike(ToLower(row.table_names), w.args[4])
         \/ RegexpLike(ToLower(row.plan), w.args[5])
    ELSE IF w.tmpl = SchemaNameWhere THEN row.schema_name = w.args[1]
    ELSE IF w.tmpl = DigestWhere THEN row.digest = w.args[1]
    ELSE IF w.tmpl = PlansWhere THEN row.plan_digest \in Elems(w.args[1])
    ELSE FALSE

\* The rows a query selects: those that satisfy every where clause.
Selected(wheres, rows) ==
    {row \in rows : \A i \in 1..Len(wheres) : EvalWhere(wheres[i], row)}

\* The schema pattern without regexp.QuoteMeta.
SchemaPattern_Unquoted(schema) == <<"\\", "b">> \o schema \o <<"\\", ".">>

\* Lines 156-163: the where clause of a non-empty schemas list.
SchemaPattern(schema) == <<"\\", "b">> \o QuoteMeta(schema) \o <<"\\", ".">>
schemasFilter(schemas) ==
    IF Len(schemas) > 0
    THEN <<Where(SchemasWhere,
                 <<Join([i \in 1..Len(schemas) |-> SchemaPattern(schemas[i])], <<"|">>)>>)>>
    ELSE <<>>

\* Lines 165-167.
stmtTypesFilter(stmtTypes) ==
    IF Len(stmtTypes) > 0 THEN <<Where(StmtTypesWhere, <<stmtTypes>>)>> ELSE <<>>

\* The text filter without strings.ToLower.
textFilter_NoLower(text) ==
    IF Len(text) > 0
    THEN LET arr == Fields(text)
         IN  [i \in 1..Len(arr) |->
                 Where(TextWhere, <<arr[i], arr[i], arr[i], arr[i], arr[i]>>)]
    ELSE <<>>

\* Lines 169-182: one where clause per term of the lower-cased text.
textFilter(text) ==
    IF Len(text) > 0
    THEN LET arr == Fields(ToLower(text))
         IN  [i \in 1..Len(arr) |->
                 Where(TextWhere, <<arr[i], arr[i], arr[i], arr[i], arr[i]>>)]
    ELSE <<>>

(***************************************************************************)
(* The column resolver (SysSchema.GetTableColumnNames) and the projection  *)
(* step (genSelectStmt) are called, not defined, in queries.go.            *)
(***************************************************************************)
\* The projection of the requested fields: "*" asks for every column; a field
\* that is no column of the table is rejected.
genSelectStmt(tableColumns, reqFields) ==
    IF reqFields = <<"*">> THEN [err |-> FALSE, stmt |-> tableColumns]
    ELSE IF \E i \in 1..Len(reqFields) : reqFields[i] \notin tableColumns
         THEN [err |-> TRUE, stmt |-> {}]
    ELSE [err |-> FALSE, stmt |-> Elems(reqFields)]

planFields ==
    <<"plan_digest", "schema_name", "digest_text", "digest", "sum_latency",
      "max_latency", "min_latency", "avg_latency", "exec_count", "avg_mem", "max_mem">>

ResolveCall == [call |-> "GetTableColumnNames", table |-> statementsTable]
FindCall(wheres) == [call |-> "Find", table |-> statementsTable, wheres |-> wheres]
ScanCall(wheres) == [call |-> "Scan", table |-> statementsTable, wheres |-> wheres]

\* What a call that failed returns, having issued the calls in issued.
Failed(issued) == [err |-> TRUE, issued |-> issued, wheres |-> <<>>, result |-> {}]

\* env: what the collaborators answer during the call: whether the resolver
\* succeeds (env.resolverOk) and with which column set (env.columns), and
\* whether the statement query succeeds (env.execOk).
ResolverFailed(env) == ~env.resolverOk

\* queryStatements going on after genSelectStmt has rejected the fields.
queryStatements_IgnoreSelectErr(in, env) ==
    IF ResolverFailed(env) THEN Failed(<<ResolveCall>>)
    ELSE LET wheres == <<Where(TimeWhere, <<in.beginTime, in.endTime>>)>>
                       \o schemasFilter(in.schemas)
                       \o stmtTypesFilter(in.stmtTypes)
                       \o textFilter(in.text)
         IN  [err |-> ~env.execOk,
              issued |-> <<ResolveCall, FindCall(wheres)>>,
              wheres |-> wheres,
              result |-> IF env.execOk THEN Selected(wheres, table) ELSE {}]

\* Lines 132-186.
queryStatements(in, env) ==
    IF ResolverFailed(env) THEN Failed(<<ResolveCall>>)
    ELSE LET selectStmt == genSelectStmt(env.columns, in.reqFields) IN
    IF selectStmt.err THEN Failed(<<ResolveCall>>)
    ELSE LET wheres == <<Where(TimeWhere, <<in.beginTime, in.endTime>>)>>
                       \o schemasFilter(in.schemas)
                       \o stmtTypesFilter(in.stmtTypes)
                       \o textFilter(in.text)
         IN  [err |-> ~env.execOk,
              issued |-> <<ResolveCall, FindCall(wheres)>>,
              wheres |-> wheres,
              result |-> IF env.execOk THEN Selected(wheres, table) ELSE {}]

\* Lines 188-224.
queryPlans(in, env) ==
    IF ResolverFailed(env) THEN Failed(<<ResolveCall>>)
    ELSE LET selectStmt == genSelectStmt(env.columns, planFields) IN
    IF selectStmt.err THEN Failed(<<ResolveCall>>)
    ELSE LET wheres == <<Where(TimeWhere, <<in.beginTime, in.endTime>>),
                         Where(SchemaNameWhere, <<in.schemaName>>),
                         Where(DigestWhere, <<in.digest>>)>>
         IN  [err |-> ~env.execOk,
              issued |-> <<ResolveCall, FindCall(wheres)>>,
              wheres |-> wheres,
              result |-> IF env.execOk THEN Selected(wheres, table) ELSE {}]

\* Lines 226-253.  Scan fills the result from the first selected row and
\* leaves it zero-valued (here: empty) when there is none.
queryPlanDetail(in, env) ==
    IF ResolverFailed(env) THEN Failed(<<ResolveCall>>)
    ELSE LET selectStmt == genSelectStmt(env.columns, <<"*">>) IN
    IF selectStmt.err THEN Failed(<<ResolveCall>>)
    ELSE LET wheres == <<Where(TimeWhere, <<in.beginTime, in.endTime>>),
                         Where(SchemaNameWhere, <<in.schemaName>>),
                         Where(DigestWhere, <<in.digest>>)>>
                       \o (IF Len(in.plans) > 0
                           THEN <<Where(PlansWhere, <<in.plans>>)>> ELSE <<>>)
             found == Selected(wheres, table)
         IN  [err |-> ~env.execOk,
              issued |-> <<ResolveCall, ScanCall(wheres)>>,
              wheres |-> wheres,
              result |-> IF env.execOk /\ found # {}
                         THEN {CHOOSE row \in found : TRUE} ELSE {}]

ConfigUnchanged == UNCHANGED <<store, pc, cfg, config, log, ret, pre, table>>

\* A service call: q holds the call and its outcome until the caller has taken
\* the result (QueryReturn); the calls are stateless, one follows another.
SearchStatements(in, env) ==
    /\ q = NoQuery
    /\ q' = [op |-> "queryStatements", in |-> in, env |-> env,
             out |-> queryStatements(in, env)]
    /\ ConfigUnchanged

ListPlans(in, env) ==
    /\ q = NoQuery
    /\ q' = [op |-> "queryPlans", in |-> in, env |-> env,
             out |-> queryPlans(in, env)]
    /\ ConfigUnchanged

PlanDetail(in, env) ==
    /\ q = NoQuery
    /\ q' = [op |-> "queryPlanDetail", in |-> in, env |-> env,
             out |-> queryPlanDetail(in, env)]
    /\ ConfigUnchanged

\* The return of the call: the caller has the result.
QueryReturn ==
    /\ q # NoQuery
    /\ q' = NoQuery
    /\ ConfigUnchanged

(***************************************************************************)
(* Rows, inputs and collaborators' answers of the statement queries.       *)
(***************************************************************************)
Row(tableNames, digestText, digest, schemaName, plan, stmtType, planDigest, begin, end) ==
    [table_names |-> tableNames, digest_text |-> digestText, digest |-> digest,
     schema_name |-> schemaName, plan |-> plan, stmt_type |-> stmtType,
     plan_digest |-> planDigest,
     summary_begin_time |-> begin, summary_end_time |-> end]

SearchInput(beginTime, endTime, schemas, stmtTypes, text, reqFields) ==
    [beginTime |-> beginTime, endTime |-> endTime, schemas |-> schemas,
     stmtTypes |-> stmtTypes, text |-> text, reqFields |-> reqFields]

\* The columns of the statements table in a current and in an older store.
ColumnsNew ==
    {"summary_begin_time", "summary_end_time", "stmt_type", "schema_name", "digest",
     "digest_text", "table_names", "plan", "plan_digest", "sum_latency",
     "max_latency", "min_latency", "avg_latency", "exec_count", "avg_mem", "max_mem"}
ColumnsOld == ColumnsNew \ {"plan_digest", "plan"}

Envs == [resolverOk : BOOLEAN, columns : {ColumnsNew, ColumnsOld}, execOk : BOOLEAN]
OkEnv == [resolverOk |-> TRUE, columns |-> ColumnsNew, execOk |-> TRUE]

Tpcc == <<"t", "p", "c", "c">>
TpccOrders == <<"t", "p", "c", "c", ".", "o", "r", "d", "e", "r", "s">>
TpccxOrders == <<"t", "p", "c", "c", "x", ".", "o", "r", "d", "e", "r", "s">>
TpccRow == Row(TpccOrders, <<"s">>, <<"d">>, Tpcc, <<"p">>, "select", "p1", 100, 200)
TpccxRow == Row(TpccxOrders, <<"s">>, <<"e">>, <<"t">>, <<"p">>, "update", "p2", 100, 200)

(***************************************************************************)
(* SpecQuery: the three query builders over every answer of the            *)
(* collaborators.                                                          *)
(***************************************************************************)
QueryFieldLists ==
    {<<"digest_text", "sum_latency">>, <<"plan_digest">>, <<"digest", "bogus">>, <<"*">>}
QuerySearchInputs ==
    {SearchInput(b, 250, schemas, stmtTypes, text, fields) :
        b \in {50, 150},
        schemas \in {<<>>, <<Tpcc>>},
        stmtTypes \in {<<>>, <<"select">>},
        text \in {<<>>, <<"S">>},
        fields \in QueryFieldLists}
QueryPlanInputs ==
    [beginTime : {50, 150}, endTime : {250}, schemaName : {Tpcc, <<"t">>},
     digest : {<<"d">>}]
QueryDetailInputs ==
    [beginTime : {50, 150}, endTime : {250}, schemaName : {Tpcc, <<"t">>},
     digest : {<<"d">>, <<"e">>}, plans : {<<>>, <<"p1">>, <<"p2">>}]

InitQuery ==
    /\ store = [n \in Settings |-> <<>>]
    /\ table \in {{}, {TpccRow}, {TpccRow, TpccxRow}}
    /\ InitIdle

NextQuery ==
    \/ \E in \in QuerySearchInputs, env \in Envs : SearchStatements(in, env)
    \/ \E in \in QueryPlanInputs, env \in Envs : ListPlans(in, env)
    \/ \E in \in QueryDetailInputs, env \in Envs : PlanDetail(in, env)
    \/ QueryReturn

SpecQuery == InitQuery /\ [][NextQuery]_vars

(***************************************************************************)
(* SpecSchema: queryStatements with a schemas list, over every short       *)
(* table_names value.                                                      *)
(***************************************************************************)
MaxTableLen == 4
MaxSchemas == 2
TableChars == {"t", "x", "."}
SchemaNames == {<<>>, <<"t">>, <<"t", "x">>, <<"t", ".">>, <<".">>, <<"|">>, Tpcc}
SchemaLists == UNION {[1..n -> SchemaNames] : n \in 1..MaxSchemas}
SchemaInputs ==
    {SearchInput(50, 250, schemas, <<>>, <<>>, <<"digest">>) : schemas \in SchemaLists}
SchemaRow(tableNames) == Row(tableNames, <<>>, <<>>, <<>>, <<>>, "select", "p1", 100, 200)

InitSchema ==
    /\ store = [n \in Settings |-> <<>>]
    /\ table \in {{SchemaRow(tn)} : tn \in Strs(TableChars, MaxTableLen)}
                 \cup {{TpccRow, TpccxRow}}
    /\ InitIdle

NextSchema ==
    \/ \E in \in SchemaInputs : SearchStatements(in, OkEnv)
    \/ QueryReturn

SpecSchema == InitSchema /\ [][NextSchema]_vars

(***************************************************************************)
(* SpecText: queryStatements with a search text, over rows whose five      *)
(* searchable columns vary.                                                *)
(***************************************************************************)
MaxTextLen == 3
TextChars == {"s", "T", " ", "."}
ColumnValues == {<<>>, <<"S">>, <<"t", "x">>}
TextRows ==
    {Row(tn, dt, d, sn, pl, "select", "p1", 100, 200) :
        tn \in ColumnValues, dt \in ColumnValues, d \in ColumnValues,
        sn \in ColumnValues, pl \in ColumnValues}

TextInputs ==
    {SearchInput(50, 250, <<>>, <<>>, text, <<"digest">>) :
        text \in Strs(TextChars, MaxTextLen)}

InitText ==
    /\ store = [n \in Settings |-> <<>>]
    /\ table \in {{row} : row \in TextRows}
    /\ InitIdle

NextText ==
    \/ \E in \in TextInputs : SearchStatements(in, OkEnv)
    \/ QueryReturn

SpecText == InitText /\ [][NextText]_vars

(***************************************************************************)
(* Vocabulary of the properties.                                           *)
(***************************************************************************)
WriteOrder == <<stmtEnableVar, stmtRefreshIntervalVar, stmtHistorySizeVar>>
Names(l) == [i \in 1..Len(l) |-> l[i].name]
IsPrefix(a, b) == Len(a) <= Len(b) /\ a = SubSeq(b, 1, Len(a))
OnlyWrites(l) == \A i \in 1..Len(l) : l[i].op = "write"
OnlyReads(l) == \A i \in 1..Len(l) : l[i].op = "read"
AllOk(l) == \A i \in 1..Len(l) : l[i].ok

RECURSIVE StripZeros(_)
StripZeros(s) ==
    IF Len(s) > 1 /\ Head(s) = "0" THEN StripZeros(Tail(s)) ELSE s

\* The string s is a decimal rendering of the integer n: an optional sign, then
\* the digits of |n|, leading zeros allowed.
Denotes(s, n) ==
    LET signed == s # <<>> /\ Head(s) \in {"+", "-"}
        neg == s # <<>> /\ Head(s) = "-"
        body == IF signed THEN Tail(s) ELSE s
        mag == IF n < 0 THEN 0 - n ELSE n
    IN  /\ body # <<>>
        /\ \A i \in 1..Len(body) : body[i] \in DigitSet
        /\ StripZeros(body) = FormatNat(mag)
        /\ (n < 0 => neg)
        /\ (neg => n <= 0)

\* The string s is a decimal integer.
IsDecimal(s) ==
    LET signed == s # <<>> /\ Head(s) \in {"+", "-"}
        body == IF signed THEN Tail(s) ELSE s
    IN  body # <<>> /\ \A i \in 1..Len(body) : body[i] \in DigitSet

\* A read that makes querySQLIntVariable fail: the statement failed, or the
\* value is neither unset nor a decimal integer.
ReadFailed(e) == ~e.ok \/ (e.str # <<>> /\ ~IsDecimal(e.str))

Triple(c) ==
    [n \in Settings |->
        IF n = stmtEnableVar THEN FormatBool(c.Enable)
        ELSE IF n = stmtRefreshIntervalVar THEN FormatInt(c.RefreshInterval)
        ELSE FormatInt(c.HistorySize)]

(***************************************************************************)
(* C1 as stated: every finished updateStmtConfig call with Enable = FALSE  *)
(* issued exactly the write of the enabled flag, and every finished call   *)
(* with Enable = TRUE issued exactly the three writes enabled flag,        *)
(* refresh interval, history size, in that order.                          *)
(***************************************************************************)
C1_ExactlyOneOrThree ==
    \A p \in Writers :
        pc[p] = "done" =>
            /\ OnlyWrites(log[p])
            /\ Names(log[p]) =
                  IF cfg[p].Enable THEN WriteOrder ELSE <<stmtEnableVar>>

(***************************************************************************)
(* C1 amended: the writes of a call are always a prefix of enabled flag,   *)
(* refresh interval, history size; a finished call with Enable = FALSE     *)
(* issued exactly the first; a finished call with Enable = TRUE issued all *)
(* three when its refresh-interval write succeeded and exactly the first   *)
(* two when that write failed.                                             *)
(***************************************************************************)
C1_WritesIssued ==
    \A p \in Writers :
        /\ OnlyWrites(log[p])
        /\ IsPrefix(Names(log[p]), WriteOrder)
        /\ pc[p] = "done" =>
              Names(log[p]) =
                  IF ~cfg[p].Enable THEN <<stmtEnableVar>>
                  ELSE IF Len(log[p]) >= 2 /\ log[p][2].ok THEN WriteOrder
                  ELSE <<stmtEnableVar, stmtRefreshIntervalVar>>

C1_Witness ==
    \E p, w \in Writers :
        /\ pc[p] = "done" /\ cfg[p].Enable /\ Len(log[p]) = 3
        /\ pc[w] = "done" /\ ~cfg[w].Enable /\ Len(log[w]) = 1

(***************************************************************************)
(* C2: a finished updateStmtConfig call one of whose writes failed         *)
(* returned an error.                                                      *)
(***************************************************************************)
C2_FailedWriteSurfaces ==
    \A p \in Writers :
        (pc[p] = "done" /\ ~AllOk(log[p])) => ret[p] = "err"

(***************************************************************************)
(* C7: no lock orders the writes of concurrent updateStmtConfig calls:     *)
(* whatever the other caller's position, a caller's next write (the first  *)
(* write of a new call included) can be issued.  The witness is the        *)
(* interleaving this allows: two finished calls, both with Enable = TRUE   *)
(* and all writes successful, run one after the other in either order      *)
(* leave the config of the later one; the store holds neither.             *)
(***************************************************************************)
C7_NoLockBetweenWrites ==
    \A p \in Writers :
        /\ pc[p] \in {"idle", "done"} => ENABLED WriteEnable(p)
        /\ pc[p] = "refresh" => ENABLED WriteRefresh(p)
        /\ pc[p] = "history" => ENABLED WriteHistory(p)

C7_Witness ==
    /\ \A p \in Writers :
          pc[p] = "done" /\ cfg[p].Enable /\ Len(log[p]) = 3 /\ AllOk(log[p])
    /\ \A p \in Writers : store # Triple(cfg[p])
    /\ \A n \in Settings : \E p \in Writers : store[n] = Triple(cfg[p])[n]

(***************************************************************************)
(* C8: a finished call with Enable = TRUE whose enabled write succeeded    *)
(* and whose refresh-interval write failed returned an error, issued no    *)
(* history-size write, and left the store with the enabled flag set and    *)
(* the refresh interval and history size the call found.                   *)
(***************************************************************************)
C8_PartialWriteKept ==
    LET p == SeqWriter IN
    (/\ pc[p] = "done"
     /\ cfg[p].Enable
     /\ Len(log[p]) >= 2
     /\ log[p][1].ok
     /\ ~log[p][2].ok)
    => /\ ret[p] = "err"
       /\ Names(log[p]) = <<stmtEnableVar, stmtRefreshIntervalVar>>
       /\ store[stmtEnableVar] = FormatBool(TRUE)
       /\ store[stmtRefreshIntervalVar] = pre[stmtRefreshIntervalVar]
       /\ store[stmtHistorySizeVar] = pre[stmtHistorySizeVar]

C8_Witness ==
    /\ pc[SeqWriter] = "done"
    /\ cfg[SeqWriter].Enable
    /\ Len(log[SeqWriter]) = 2
    /\ log[SeqWriter][1].ok
    /\ ~log[SeqWriter][2].ok
    /\ pre[stmtEnableVar] # FormatBool(TRUE)
    /\ store[stmtEnableVar] = FormatBool(TRUE)

(***************************************************************************)
(* C3 as stated: a queryStmtConfig call whose three reads succeeded        *)
(* returns RefreshInterval = 1800 when the stored refresh interval is      *)
(* unset and the stored integer otherwise, and HistorySize = 24 when the   *)
(* stored history size is unset and the stored integer otherwise.          *)
(***************************************************************************)
C3_DefaultOnlyWhenUnset ==
    \A r \in Readers :
        (pc[r] = "done" /\ ret[r] = "nil") =>
            /\ IF log[r][2].str = <<>>
               THEN config[r].RefreshInterval = DefaultRefreshInterval
               ELSE Denotes(log[r][2].str, config[r].RefreshInterval)
            /\ IF log[r][3].str = <<>>
               THEN config[r].HistorySize = DefaultHistorySize
               ELSE Denotes(log[r][3].str, config[r].HistorySize)

(***************************************************************************)
(* C3 amended: a queryStmtConfig call whose three reads succeeded returns  *)
(* RefreshInterval = 1800 when the stored refresh interval is unset or is  *)
(* the integer -1, and the stored integer otherwise; HistorySize = 24 when *)
(* the stored history size is unset or is the integer -1, and the stored   *)
(* integer otherwise; whatever the enabled setting.                        *)
(***************************************************************************)
C3_DefaultWhenUnsetOrMinusOne ==
    \A r \in Readers :
        (pc[r] = "done" /\ ret[r] = "nil") =>
            /\ IF log[r][2].str = <<>> \/ Denotes(log[r][2].str, -1)
               THEN config[r].RefreshInterval = DefaultRefreshInterval
               ELSE Denotes(log[r][2].str, config[r].RefreshInterval)
            /\ IF log[r][3].str = <<>> \/ Denotes(log[r][3].str, -1)
               THEN config[r].HistorySize = DefaultHistorySize
               ELSE Denotes(log[r][3].str, config[r].HistorySize)

C3_Witness ==
    \E r \in Readers :
        /\ pc[r] = "done" /\ ret[r] = "nil"
        /\ log[r][1].str = <<"0">>
        /\ log[r][2].str = <<>>
        /\ log[r][3].str = <<"1", "0">>
        /\ config[r] = [Enable |-> FALSE,
                        RefreshInterval |-> DefaultRefreshInterval,
                        HistorySize |-> 10]

(***************************************************************************)
(* C9: queryStmtConfig reads enabled, refresh interval, history size in    *)
(* that order; the first read that fails (the statement, or the parse of   *)
(* its value) is the last one issued and the call returns an error and no  *)
(* Config; a call that returns no error issued all three; no call issues a *)
(* write, and the store stays as it was.                                   *)
(***************************************************************************)
C9_ReadsInOrderAbortOnFailure ==
    \A r \in Readers :
        /\ OnlyReads(log[r])
        /\ IsPrefix(Names(log[r]), WriteOrder)
        /\ store = pre
        /\ \A i \in 1..(Len(log[r]) - 1) : ~ReadFailed(log[r][i])
        /\ (Len(log[r]) > 0 /\ ReadFailed(log[r][Len(log[r])])) =>
              pc[r] = "done" /\ ret[r] = "err" /\ config[r] = NoConfig
        /\ (pc[r] = "done" /\ ret[r] = "nil") =>
              Len(log[r]) = 3 /\ config[r] # NoConfig

C9_Witness ==
    \E r \in Readers :
        /\ pc[r] = "done" /\ ret[r] = "err"
        /\ Len(log[r]) = 2
        /\ log[r][2].ok /\ ~IsDecimal(log[r][2].str)
        /\ config[r] = NoConfig

(***************************************************************************)
(* C10: the Enable that queryStmtConfig reports is TRUE exactly when the   *)
(* stored enabled value is not an integer equal to 0; in particular an     *)
(* unset (empty) value is reported as TRUE, and FALSE is reported only for *)
(* a stored value that parses to 0.                                        *)
(***************************************************************************)
C10_EnableIffNonZero ==
    \A r \in Readers :
        config[r] # NoConfig =>
            /\ config[r].Enable <=> ~Denotes(log[r][1].str, 0)
            /\ log[r][1].str = <<>> => config[r].Enable

C10_Witness ==
    \E r \in Readers :
        /\ pc[r] = "done" /\ ret[r] = "nil"
        /\ log[r][1].str = <<>>
        /\ config[r].Enable

(***************************************************************************)
(* C4: in queryStatements, queryPlans and queryPlanDetail, when the column *)
(* resolver fails or the projection step rejects the fields, the call      *)
(* returns an error, has built no where clause and has issued no Find or   *)
(* Scan: the resolver call is all it issued.                               *)
(***************************************************************************)
FieldsOf(call) ==
    IF call.op = "queryStatements" THEN call.in.reqFields
    ELSE IF call.op = "queryPlans" THEN planFields
    ELSE <<"*">>

C4_ValidationBeforeExecution ==
    q # NoQuery =>
        ((~q.env.resolverOk \/ genSelectStmt(q.env.columns, FieldsOf(q)).err) =>
            /\ q.out.err
            /\ q.out.wheres = <<>>
            /\ q.out.result = {}
            /\ q.out.issued = <<ResolveCall>>
            /\ \A i \in 1..Len(q.out.issued) :
                  q.out.issued[i].call \notin {"Find", "Scan"})

C4_Witness ==
    /\ q # NoQuery
    /\ q.op = "queryStatements"
    /\ q.env.resolverOk
    /\ q.env.execOk
    /\ q.in.reqFields = <<"digest", "bogus">>
    /\ table # {}
    /\ q.out.err
    /\ q.out.issued = <<ResolveCall>>

(***************************************************************************)
(* C5: in queryStatements with a non-empty text, the terms are the maximal *)
(* runs of non-space characters of the lower-cased text; the query holds   *)
(* exactly one text where clause per term, in order, whose text is the     *)
(* fixed five-column clause and whose five bound values are the term; and  *)
(* a row is selected iff for every term at least one of the lower-cased    *)
(* digest_text, digest, schema_name, table_names, plan matches the term.   *)
(***************************************************************************)
\* The maximal runs of non-space characters of s, as <<first, last>> positions.
Runs(s) ==
    {r \in (1..Len(s)) \X (1..Len(s)) :
        /\ r[1] <= r[2]
        /\ \A i \in r[1]..r[2] : ~IsSpace(s[i])
        /\ (r[1] = 1 \/ IsSpace(s[r[1] - 1]))
        /\ (r[2] = Len(s) \/ IsSpace(s[r[2] + 1]))}
RunText(s, r) == SubSeq(s, r[1], r[2])
\* The place of run r among the runs of s, from 1.
RunIndex(s, r) == 1 + Cardinality({o \in Runs(s) : o[1] < r[1]})
SearchableColumns(row) ==
    {row.digest_text, row.digest, row.schema_name, row.table_names, row.plan}
IsTextWhere(w) == w.tmpl = TextWhere

C5_TextTermsAndColumnsOr ==
    (q # NoQuery /\ q.op = "queryStatements" /\ ~q.out.err /\ Len(q.in.text) > 0) =>
        LET lower == ToLower(q.in.text)
            textWheres == SelectSeq(q.out.wheres, IsTextWhere)
        IN  /\ Len(textWheres) = Cardinality(Runs(lower))
            /\ \A r \in Runs(lower) :
                  LET term == RunText(lower, r) IN
                  textWheres[RunIndex(lower, r)].args = <<term, term, term, term, term>>
            /\ \A row \in table :
                  row \in q.out.result <=>
                      \A r \in Runs(lower) :
                          \E col \in SearchableColumns(row) :
                              RegexpLike(ToLower(col), RunText(lower, r))

C5_Witness ==
    /\ q # NoQuery
    /\ q.in.text = <<"s", " ", "T">>
    /\ \E row \in table :
          /\ row.digest_text = <<"S">>
          /\ row.plan = <<"t", "x">>
          /\ row.digest = <<>> /\ row.schema_name = <<>> /\ row.table_names = <<>>
          /\ row \in q.out.result
    /\ Len(SelectSeq(q.out.wheres, IsTextWhere)) = 2

(***************************************************************************)
(* C6: in queryStatements with a non-empty schemas list, the query holds   *)
(* exactly one schema where clause with one bound pattern, and a row is    *)
(* selected iff its table_names contains, starting at a word boundary, one *)
(* of the given schema names immediately followed by ".".  So <<"tpcc">>   *)
(* selects a row of tpcc.orders and not a row of tpccx.orders.             *)
(***************************************************************************)
\* x holds name at position i, a word boundary, followed by ".".
SchemaAt(x, name, i) ==
    /\ WordBoundary(x, i)
    /\ i + Len(name) <= Len(x)
    /\ SubSeq(x, i, i + Len(name) - 1) = name
    /\ x[i + Len(name)] = "."
IsSchemasWhere(w) == w.tmpl = SchemasWhere

C6_SchemaWordBoundary ==
    (q # NoQuery /\ q.op = "queryStatements" /\ ~q.out.err /\ Len(q.in.schemas) > 0) =>
        LET schemaWheres == SelectSeq(q.out.wheres, IsSchemasWhere)
        IN  /\ Len(schemaWheres) = 1
            /\ Len(schemaWheres[1].args) = 1
            /\ \A row \in table :
                  row \in q.out.result <=>
                      \E k \in 1..Len(q.in.schemas) :
                          \E i \in 1..(Len(row.table_names) + 1) :
                              SchemaAt(row.table_names, q.in.schemas[k], i)

C6_Witness ==
    /\ q # NoQuery
    /\ q.in.schemas = <<Tpcc>>
    /\ table = {TpccRow, TpccxRow}
    /\ q.out.result = {TpccRow}

====
